---- MODULE Spec2Model ----
(***************************************************************************)
(* Model of the media reconciliation scripts of image2out:                 *)
(*   media_organizer.py            in-memory inventory  (variant "memory") *)
(*   media_organizer_optimized.py  SQLite inventory  (variant "optimized") *)
(*   media_organizer_ultra.py      SQLite inventory      (variant "ultra") *)
(* A run is main -> process_media_files -> scan target, scan source,       *)
(* resolve one hash group at a time.  The file system is a function from   *)
(* paths to file contents (blobs); the exact hash of a file identifies its *)
(* blob, so files with equal exact hash have equal size and equal          *)
(* perceptual hash.                                                        *)
(***************************************************************************)
EXTENDS Integers, Sequences, FiniteSets, TLC

VARIABLES
    variant,          \* which script runs
    use_content_hash, \* not args.fast
    roots,            \* which of the two root directories exist
    disk,             \* the file system: path -> blob, for the files that exist
    files,            \* the inventory: table files / dict all_files, in row order
    processed,        \* paths with processed = TRUE / processed_files_set
    todo,             \* hash groups still to be handled by the resolution loop
    counts,           \* copied, skipped, deleted counters of the current run
    result,           \* <<counters>> returned by the last resolution, <<>> before
    status,           \* <<exit status>> of main, <<>> while it runs
    pc,               \* position of the run
    run,              \* number of process_media_files calls started by main
    pass,             \* number of resolution passes started since main began
    failures,         \* number of copy/delete operations that failed so far
    hashed,           \* paths whose bytes were read by a hash function
    ops,              \* history of the side effects attempted by the resolver
    initial,          \* the file system and the roots when main started
    committed,        \* paths whose processed = TRUE is committed to the database file
    dry_run,          \* image_cleaner: --dry-run was given
    pixels,           \* the 64 luminance samples handed to the perceptual hashes
    digest            \* call site -> <<digest>> it computed for pixels, <<>> before

hashvars == <<pixels, digest>>

vars == <<variant, dry_run, use_content_hash, roots, disk, files, processed, todo,
          counts, result, status, pc, run, pass, failures, hashed, ops, initial,
          committed, hashvars>>

None == "None"

\* ------------------------------------------------------------------ bounds
MaxTarget == 2
MaxSource == 2
MaxFiles == 3
MaxPasses == 2
MaxFailures == 1

\* ------------------------------------------------------- file contents
\* A blob is the byte content of a file.  B1 and B2 are the same picture in
\* two resolutions, B3 is a corrupt picture, B4 decodes for verify() but not
\* for the thumbnail, B5 is a file that cannot be opened for reading.
Blobs == {"B1", "B2", "B3", "B4", "B5"}

getsize(b) == IF b \in {"B1", "B3", "B5"} THEN 1 ELSE 2

verify(b) == b \notin {"B3", "B5"}

\* A thumbnail step that never raises.
perceptual_AlwaysDecodes(b) == "c1"

perceptual(b) == IF b \in {"B1", "B2"} THEN "c1" ELSE None

\* md5 of the bytes, None when open() or read() raises.
calculate_file_hash(b) == IF b = "B5" THEN None ELSE b

\* ---------------------------------------------------------------- paths
\* A path is [tree, dir, stem, ext]: tree "T" is the target root, "S" the
\* source root, "B" a directory that both walks reach (nested roots).  The
\* stem is the sequence of the "_"-separated parts of the name, so that the
\* suffixed name name_k is Append(stem, k).
Path(t, d, s, e) == [tree |-> t, dir |-> d, stem |-> s, ext |-> e]

TargetPaths == {Path("T", "", <<"a">>, "jpg"), Path("T", "", <<"b">>, "jpg"),
                Path("T", "", <<"c">>, "mp4")}

SourcePaths == {Path("S", "", <<"a">>, "jpg"), Path("S", "sub", <<"a">>, "jpg"),
                Path("S", "", <<"c">>, "mp4"), Path("S", "", <<"d">>, "zip")}

SharedPaths == {Path("B", "in", <<"a">>, "jpg")}

\* The contents a path of the initial file system may have.
Contents(p) ==
    IF p.ext = "jpg" /\ p.dir = "" /\ p.stem = <<"a">> THEN {"B1", "B2", "B3", "B4"}
    ELSE IF p.ext = "zip" \/ (p.ext = "mp4" /\ p.tree = "T") THEN {"B1", "B5"}
    ELSE IF p.ext = "mp4" \/ p.tree = "B" THEN {"B1"}
    ELSE {"B1", "B2"}

basename(p) == <<p.stem, p.ext>>

get_file_type(p) ==
    IF p.ext = "jpg" THEN "image"
    ELSE IF p.ext = "mp4" THEN "video"
    ELSE IF p.ext = "zip" THEN "archive"
    ELSE "other"

should_skip_directory(d) == d \in {"mp4", "zip"}

\* A resolver that puts every type directly into the target directory.
get_target_directory_Flat(file_type) == ""

get_target_directory(file_type) ==
    IF file_type = "video" THEN "mp4"
    ELSE IF file_type = "archive" THEN "zip"
    ELSE ""

\* A classifier that never verifies.
is_image_file_ext(p, b) == get_file_type(p) = "image"

\* is_image_file: extension, then Image.verify(); the ultra script trusts
\* the extension alone.
is_image_file(p, b) ==
    IF get_file_type(p) # "image" THEN FALSE
    ELSE IF variant = "ultra" THEN TRUE
    ELSE verify(b)

\* The files an os.walk of a root yields.
Walk(d, is_target) ==
    {p \in DOMAIN d : /\ p.tree \in (IF is_target THEN {"T", "B"} ELSE {"S", "B"})
                      /\ ~should_skip_directory(p.dir)}

Perms(S) == {f \in [1..Cardinality(S) -> S] : \A i, j \in 1..Cardinality(S) : f[i] = f[j] => i = j}

Range(s) == {s[i] : i \in 1..Len(s)}

\* ----------------------------------------------------------------- scan
\* The record of one inventoried file.  In the memory script the perceptual
\* hash of an image is always computed, in the store scripts only when
\* use_content_hash is set.
Record(p, b, is_target) ==
    [path |-> p,
     file_type |-> get_file_type(p),
     size |-> getsize(b),
     file_hash |-> calculate_file_hash(b),
     content_hash |-> IF get_file_type(p) = "image" /\ (variant = "memory" \/ use_content_hash)
                      THEN perceptual(b) ELSE None,
     is_target |-> is_target]

\* A walked file is handed to the hash functions unless its type is "other"
\* or it is an image that fails is_image_file.
Hashable(p, b) ==
    /\ get_file_type(p) \in {"image", "video", "archive"}
    /\ get_file_type(p) = "image" => is_image_file(p, b)

\* A scan that keeps the files whose hash could not be computed.
Recorded_NoHashCheck(p, b, is_target) == Hashable(p, b)

\* if file_hash is None: continue.  The scan of the target tree of the memory
\* script has no such test.
Recorded(p, b, is_target) ==
    /\ Hashable(p, b)
    /\ calculate_file_hash(b) # None \/ (variant = "memory" /\ is_target)

\* A plain INSERT into a table without the UNIQUE constraint on path.
InsertOrIgnore_Always(rows, r) == Append(rows, r)

\* INSERT OR IGNORE INTO files: a row whose path exists already is dropped.
InsertOrIgnore(rows, r) ==
    IF \E i \in 1..Len(rows) : rows[i].path = r.path THEN rows ELSE Append(rows, r)

\* all_files[file_type][base_filename].append(...): the record joins the list
\* of its file name; the lists are iterated in the order their names were
\* first seen, so the record goes right after the last record of its name.
AppendAllFiles(rows, r) ==
    LET same == {i \in 1..Len(rows) : /\ rows[i].file_type = r.file_type
                                       /\ basename(rows[i].path) = basename(r.path)}
    IN  IF same = {} THEN Append(rows, r)
        ELSE LET last == CHOOSE i \in same : \A j \in same : j <= i
             IN  SubSeq(rows, 1, last) \o <<r>> \o SubSeq(rows, last + 1, Len(rows))

batch_size == 1000

\* cursor.executemany(INSERT OR IGNORE ..., batch_data)
RECURSIVE executemany(_, _)
executemany(rows, batch_data) ==
    IF batch_data = <<>> THEN rows
    ELSE executemany(InsertOrIgnore(rows, Head(batch_data)), Tail(batch_data))

\* The loop over the walked files: the table and the pending batch_data after
\* it.  The ultra script inserts a batch when it is full, the optimized script
\* inserts row by row, the memory script appends to all_files.
RECURSIVE scan_files(_, _, _, _, _)
scan_files(rows, batch_data, d, order, is_target) ==
    IF order = <<>> THEN [rows |-> rows, batch_data |-> batch_data]
    ELSE LET p == Head(order)
             r == Record(p, d[p], is_target)
         IN  IF ~Recorded(p, d[p], is_target)
             THEN scan_files(rows, batch_data, d, Tail(order), is_target)
             ELSE IF variant = "memory"
             THEN scan_files(AppendAllFiles(rows, r), batch_data, d, Tail(order), is_target)
             ELSE IF variant = "optimized"
             THEN scan_files(InsertOrIgnore(rows, r), batch_data, d, Tail(order), is_target)
             ELSE IF Len(batch_data) + 1 >= batch_size
             THEN scan_files(executemany(rows, Append(batch_data, r)), <<>>, d,
                             Tail(order), is_target)
             ELSE scan_files(rows, Append(batch_data, r), d, Tail(order), is_target)

\* A scan that forgets the batch that is pending when the loop ends.
scan_directory_NoLastBatch(rows, d, order, is_target) ==
    scan_files(rows, <<>>, d, order, is_target).rows

\* scan_directory: the loop, then the insert of the remaining batch_data and
\* the commit.
scan_directory(rows, d, order, is_target) ==
    LET s == scan_files(rows, <<>>, d, order, is_target)
    IN  executemany(s.rows, s.batch_data)

\* ------------------------------------------------------------ hash groups
Types == <<"image", "video", "archive">>

RowsOfType(rows, t) == SelectSeq(rows, LAMBDA r : r.file_type = t)

Key(t, k, v) == [file_type |-> t, kind |-> k, value |-> v]

AddKey(keys, k) == IF k \in Range(keys) THEN keys ELSE Append(keys, k)

\* A grouping that files a picture under its perceptual hash in fast mode too.
RECURSIVE hash_values_IgnoresFlag(_, _, _)
hash_values_IgnoresFlag(rows, t, keys) ==
    IF rows = <<>> THEN keys
    ELSE LET r == Head(rows)
             k1 == IF r.file_hash # None
                   THEN AddKey(keys, Key(t, "file_hash", r.file_hash))
                   ELSE keys
             k2 == IF variant = "memory" /\ t = "image" /\ r.content_hash # None
                   THEN AddKey(k1, Key(t, "content_hash", r.content_hash))
                   ELSE k1
         IN  hash_values_IgnoresFlag(Tail(rows), t, k2)

\* The keys of hash_groups in insertion order (memory), the rows of SELECT
\* DISTINCT file_hash in the order SQLite yields them, which is the order of
\* the first row of each hash (store).  Only the memory script files an image
\* under its perceptual hash as well.
RECURSIVE hash_values(_, _, _)
hash_values(rows, t, keys) ==
    IF rows = <<>> THEN keys
    ELSE LET r == Head(rows)
             k1 == IF r.file_hash # None
                   THEN AddKey(keys, Key(t, "file_hash", r.file_hash))
                   ELSE keys
             k2 == IF /\ variant = "memory"
                      /\ t = "image"
                      /\ use_content_hash
                      /\ r.content_hash # None
                   THEN AddKey(k1, Key(t, "content_hash", r.content_hash))
                   ELSE k1
         IN  hash_values(Tail(rows), t, k2)

\* A resolver that only loops over the type image.
AllGroups_ImagesOnly(rows) == hash_values(RowsOfType(rows, Types[1]), Types[1], <<>>)

AllGroups(rows) ==
    hash_values(RowsOfType(rows, Types[1]), Types[1], <<>>)
    \o hash_values(RowsOfType(rows, Types[2]), Types[2], <<>>)
    \o hash_values(RowsOfType(rows, Types[3]), Types[3], <<>>)

\* A group query without the file_type condition.
InGroup_AnyType(r, k) ==
    IF k.kind = "file_hash" THEN r.file_hash = k.value ELSE r.content_hash = k.value

InGroup(r, k) ==
    /\ r.file_type = k.file_type
    /\ IF k.kind = "file_hash" THEN r.file_hash = k.value ELSE r.content_hash = k.value

\* ORDER BY size DESC, is_target DESC; rows that tie come in rowid order.
Before(r1, r2) ==
    \/ r1.size > r2.size
    \/ r1.size = r2.size /\ r1.is_target /\ ~r2.is_target

RECURSIVE OrderBy(_)
OrderBy(rs) ==
    IF rs = <<>> THEN <<>>
    ELSE LET best == {i \in 1..Len(rs) : \A j \in 1..Len(rs) : ~Before(rs[j], rs[i])}
             i == CHOOSE i \in best : \A j \in best : i <= j
         IN  <<rs[i]>> \o OrderBy(SubSeq(rs, 1, i - 1) \o SubSeq(rs, i + 1, Len(rs)))

\* unique_files: the first record of each path.
RECURSIVE unique_files(_, _)
unique_files(rs, seen) ==
    IF rs = <<>> THEN <<>>
    ELSE IF Head(rs).path \in seen THEN unique_files(Tail(rs), seen)
    ELSE <<Head(rs)>> \o unique_files(Tail(rs), seen \cup {Head(rs).path})

\* The members of a group as the resolver sees them.
duplicate_files(rows, k) ==
    LET rs == SelectSeq(rows, LAMBDA r : InGroup(r, k))
    IN  IF variant = "memory" THEN unique_files(rs, {}) ELSE OrderBy(rs)

\* max(unique_files, key=size): the first record of maximal size.
Largest(rs) ==
    LET i == CHOOSE i \in 1..Len(rs) :
                 /\ \A j \in 1..Len(rs) : rs[j].size <= rs[i].size
                 /\ \A j \in 1..(i - 1) : rs[j].size < rs[i].size
    IN  rs[i]

\* ------------------------------------------------------------ side effects
\* A collision loop that takes the first suffixed name without looking.
collision_NoIncrement(d, dir, p, counter) ==
    Path("T", dir, Append(p.stem, counter), p.ext)

\* The collision loop: name.ext, else name_1.ext, name_2.ext, ... until the
\* path does not exist.
RECURSIVE collision(_, _, _, _)
collision(d, dir, p, counter) ==
    LET target_path == Path("T", dir, Append(p.stem, counter), p.ext)
    IN  IF target_path \in DOMAIN d THEN collision(d, dir, p, counter + 1) ELSE target_path

\* A resolver without the collision loop.
TargetPath_NoLoop(d, dir, p) == Path("T", dir, p.stem, p.ext)

TargetPath(d, dir, p) ==
    LET target_path == Path("T", dir, p.stem, p.ext)
    IN  IF target_path \in DOMAIN d THEN collision(d, dir, p, 1) ELSE target_path

Op(o, p, dest, ok, existed) ==
    [run |-> run, pass |-> pass, op |-> o, path |-> p, dest |-> dest, ok |-> ok, existed |-> existed]

\* A copy whose UPDATE and counter sit outside the try block.
Copy_MarksOnFailure(st, r, F, late) ==
    LET p == r.path
        tp == TargetPath(st.disk, get_target_directory(r.file_type), p)
        ok == p \in DOMAIN st.disk /\ p \notin F
        written == p \in DOMAIN st.disk /\ (ok \/ late)
        d1 == IF written
              THEN [q \in DOMAIN st.disk \cup {tp} |-> IF q = tp THEN st.disk[p] ELSE st.disk[q]]
              ELSE st.disk
    IN  [disk |-> d1,
         processed |-> st.processed \cup {p},
         counts |-> [st.counts EXCEPT !.copied = @ + 1],
         ops |-> Append(st.ops, Op("copy", p, tp, ok, tp \in DOMAIN st.disk))]

\* shutil.copy2 in its try block.  The copy fails when the file is gone or
\* when the failure is injected (p in F); late is the case where copy2 fails
\* after the data was written (copystat).  Only a successful copy counts and
\* marks the record processed.
Copy(st, r, F, late) ==
    LET p == r.path
        tp == TargetPath(st.disk, get_target_directory(r.file_type), p)
        ok == p \in DOMAIN st.disk /\ p \notin F
        written == p \in DOMAIN st.disk /\ (ok \/ late)
        d1 == IF written
              THEN [q \in DOMAIN st.disk \cup {tp} |-> IF q = tp THEN st.disk[p] ELSE st.disk[q]]
              ELSE st.disk
    IN  [disk |-> d1,
         processed |-> IF ok THEN st.processed \cup {p} ELSE st.processed,
         counts |-> IF ok THEN [st.counts EXCEPT !.copied = @ + 1] ELSE st.counts,
         ops |-> Append(st.ops, Op("copy", p, tp, ok, tp \in DOMAIN st.disk))]

\* os.remove in its try block.
Remove(st, r, F) ==
    LET p == r.path
        ok == p \in DOMAIN st.disk /\ p \notin F
    IN  [disk |-> IF ok THEN [q \in DOMAIN st.disk \ {p} |-> st.disk[q]] ELSE st.disk,
         processed |-> IF ok THEN st.processed \cup {p} ELSE st.processed,
         counts |-> IF ok THEN [st.counts EXCEPT !.deleted = @ + 1] ELSE st.counts,
         ops |-> Append(st.ops, Op("delete", p, None, ok, FALSE))]

\* A resolver that removes the redundant source file instead of skipping it.
Skip_Removes(st, r) == Remove(st, r, {})

Skip(st, r) ==
    [disk |-> st.disk,
     processed |-> st.processed \cup {r.path},
     counts |-> [st.counts EXCEPT !.skipped = @ + 1],
     ops |-> Append(st.ops, Op("skip", r.path, None, TRUE, FALSE))]

\* for ... in rs: if <the record is unprocessed>: delete it
RECURSIVE RemoveAll(_, _, _)
RemoveAll(st, rs, F) ==
    IF rs = <<>> THEN st
    ELSE RemoveAll(IF Head(rs).path \in st.processed THEN st ELSE Remove(st, Head(rs), F),
                   Tail(rs), F)

\* A skip loop that does not look at the processed mark.
RECURSIVE SkipAll_NoCheck(_, _)
SkipAll_NoCheck(st, rs) ==
    IF rs = <<>> THEN st ELSE SkipAll_NoCheck(Skip(st, Head(rs)), Tail(rs))

\* for ... in rs: if <the record is unprocessed>: count it as skipped
RECURSIVE SkipAll(_, _)
SkipAll(st, rs) ==
    IF rs = <<>> THEN st
    ELSE SkipAll(IF Head(rs).path \in st.processed THEN st ELSE Skip(st, Head(rs)), Tail(rs))

\* --------------------------------------------------------------- resolver
\* A resolver that copies the only member of a group whatever its flag.
GroupStore_NoProcessedCheck(st, rs, F, late) ==
    IF Len(rs) = 0 THEN st
    ELSE IF Len(rs) = 1
    THEN IF ~rs[1].is_target THEN Copy(st, rs[1], F, late) ELSE st
    ELSE LET largest_file == rs[1]
         IN  IF largest_file.is_target
             THEN LET s1 == RemoveAll(st, SelectSeq(Tail(rs), LAMBDA r : r.is_target), F)
                      s2 == SkipAll(s1, SelectSeq(rs, LAMBDA r : ~r.is_target))
                  IN  [s2 EXCEPT !.processed = @ \cup {largest_file.path}]
             ELSE LET s1 == RemoveAll(st, SelectSeq(rs, LAMBDA r : r.is_target), F)
                      s2 == Copy(s1, largest_file, F, late)
                  IN  SkipAll(s2, SelectSeq(Tail(rs), LAMBDA r : ~r.is_target))

\* One iteration of the loop over hash_values in process_duplicates of the
\* store scripts; rs is the result of the ORDER BY query.
GroupStore(st, rs, F, late) ==
    IF Len(rs) = 0 THEN st
    ELSE IF Len(rs) = 1
    THEN IF ~rs[1].is_target /\ rs[1].path \notin st.processed
         THEN Copy(st, rs[1], F, late)
         ELSE st
    ELSE LET largest_file == rs[1]
         IN  IF largest_file.is_target
             THEN LET s1 == RemoveAll(st, SelectSeq(Tail(rs), LAMBDA r : r.is_target), F)
                      s2 == SkipAll(s1, SelectSeq(rs, LAMBDA r : ~r.is_target))
                  IN  [s2 EXCEPT !.processed = @ \cup {largest_file.path}]
             ELSE LET s1 == RemoveAll(st, SelectSeq(rs, LAMBDA r : r.is_target), F)
                      s2 == IF largest_file.path \notin st.processed
                            THEN Copy(s1, largest_file, F, late)
                            ELSE s1
                  IN  SkipAll(s2, SelectSeq(Tail(rs), LAMBDA r : ~r.is_target))

\* One iteration of the loop over hash_groups in process_media_files of the
\* memory script; rs is unique_files.
GroupMemory(st, rs, F, late) ==
    IF Len(rs) = 0 THEN st
    ELSE IF Len(rs) = 1
    THEN IF ~rs[1].is_target /\ rs[1].path \notin st.processed
         THEN Copy(st, rs[1], F, late)
         ELSE st
    ELSE LET largest_file == Largest(rs)
             target_files == SelectSeq(rs, LAMBDA r : r.is_target)
             source_files == SelectSeq(rs, LAMBDA r : ~r.is_target)
         IN  IF largest_file.is_target
             THEN LET s1 == RemoveAll(st, SelectSeq(target_files, LAMBDA r : r # largest_file), F)
                  IN  SkipAll(s1, source_files)
             ELSE LET s1 == RemoveAll(st, target_files, F)
                      s2 == IF largest_file.path \notin s1.processed
                            THEN Copy(s1, largest_file, F, late)
                            ELSE s1
                  IN  SkipAll(s2, SelectSeq(source_files, LAMBDA r : r # largest_file))

\* A resolver that marks every member of the group it has handled.
HandleGroup_MarksMembers(st, rs, F, late) ==
    LET s1 == IF variant = "memory" THEN GroupMemory(st, rs, F, late)
              ELSE GroupStore(st, rs, F, late)
    IN  [s1 EXCEPT !.processed = @ \cup {rs[i].path : i \in 1..Len(rs)}]

HandleGroup(st, rs, F, late) ==
    IF variant = "memory" THEN GroupMemory(st, rs, F, late) ELSE GroupStore(st, rs, F, late)

\* ------------------------------------------------------------------ init
InitialDisks ==
    UNION {{d \in [P -> Blobs] : \A p \in P : d[p] \in Contents(p)} :
              P \in {P \in SUBSET (TargetPaths \cup SourcePaths \cup SharedPaths) :
                        /\ Cardinality(P \cap TargetPaths) <= MaxTarget
                        /\ Cardinality(P \cap (SourcePaths \cup SharedPaths)) <= MaxSource
                        /\ Cardinality(P) <= MaxFiles}}

Init ==
    /\ variant \in {"memory", "optimized", "ultra"}
    /\ dry_run = FALSE
    /\ use_content_hash \in BOOLEAN
    /\ roots \in [{"source", "target"} -> BOOLEAN]
    /\ disk \in InitialDisks
    /\ ~roots["source"] => DOMAIN disk \cap (SourcePaths \cup SharedPaths) = {}
    /\ ~roots["target"] => DOMAIN disk \cap (TargetPaths \cup SharedPaths) = {}
    /\ files = <<>>
    /\ processed = {}
    /\ todo = <<>>
    /\ counts = [copied |-> 0, skipped |-> 0, deleted |-> 0]
    /\ result = <<>>
    /\ status = <<>>
    /\ pc = "main"
    /\ run = 0
    /\ pass = 0
    /\ failures = 0
    /\ hashed = {}
    /\ ops = <<>>
    /\ initial = [disk |-> disk, roots |-> roots]
    /\ committed = {}
    /\ pixels = <<>>
    /\ digest = <<>>

\* --------------------------------------------------------------- actions
\* A main without the check of the source directory.
Main_NoCheck ==
    /\ pc = "main"
    /\ pc' = "process_media_files"
    /\ UNCHANGED <<variant, dry_run, use_content_hash, roots, disk, files, processed, todo,
                   counts, result, status, run, pass, failures, hashed, ops, initial,
                   committed, hashvars>>

\* main: a missing source directory ends the program with status 1.
Main ==
    /\ pc = "main"
    /\ IF ~roots["source"]
       THEN pc' = "exit" /\ status' = <<1>>
       ELSE pc' = "process_media_files" /\ status' = status
    /\ UNCHANGED <<variant, dry_run, use_content_hash, roots, disk, files, processed, todo,
                   counts, result, run, pass, failures, hashed, ops, initial,
                   committed, hashvars>>

\* process_media_files, up to the first scan: create the target directory,
\* clear the store (a fresh all_files in the memory script).
ProcessMediaFiles ==
    /\ pc \in {"process_media_files", "returned"}
    /\ pass < MaxPasses
    /\ roots' = [roots EXCEPT !["target"] = TRUE]
    /\ files' = <<>>
    /\ processed' = {}
    /\ counts' = [copied |-> 0, skipped |-> 0, deleted |-> 0]
    /\ run' = run + 1
    /\ committed' = {}
    /\ pc' = "scan_target"
    /\ UNCHANGED <<variant, dry_run, use_content_hash, disk, todo, result, status,
                   pass, failures, hashed, ops, initial, hashvars>>

ScanTarget ==
    /\ pc = "scan_target"
    /\ \E order \in Perms(Walk(disk, TRUE)) :
          files' = scan_directory(files, disk, order, TRUE)
    /\ hashed' = hashed \cup {p \in Walk(disk, TRUE) : Hashable(p, disk[p])}
    /\ pc' = "scan_source"
    /\ UNCHANGED <<variant, dry_run, use_content_hash, roots, disk, processed, todo,
                   counts, result, status, run, pass, failures, ops, initial,
                   committed, hashvars>>

ScanSource ==
    /\ pc = "scan_source"
    /\ \E order \in Perms(Walk(disk, FALSE)) :
          files' = scan_directory(files, disk, order, FALSE)
    /\ hashed' = hashed \cup {p \in Walk(disk, FALSE) : Hashable(p, disk[p])}
    /\ pc' = "process_duplicates"
    /\ UNCHANGED <<variant, dry_run, use_content_hash, roots, disk, processed, todo,
                   counts, result, status, run, pass, failures, ops, initial,
                   committed, hashvars>>

\* A resolution pass that starts by resetting the processed flags.
ProcessDuplicates_ResetsFlags ==
    /\ \/ pc = "process_duplicates"
       \/ pc = "returned" /\ variant # "memory" /\ pass < MaxPasses
    /\ pass' = pass + 1
    /\ counts' = [copied |-> 0, skipped |-> 0, deleted |-> 0]
    /\ todo' = AllGroups(files)
    /\ processed' = {}
    /\ pc' = "resolve"
    /\ UNCHANGED <<variant, dry_run, use_content_hash, roots, disk, files,
                   result, status, run, failures, hashed, ops, initial,
                   committed, hashvars>>

\* Entry of process_duplicates (of the resolution part of process_media_files
\* in the memory script): the counters start at zero and the hash groups are
\* read.  The store scripts can be asked for a further pass over the store.
ProcessDuplicates ==
    /\ \/ pc = "process_duplicates"
       \/ pc = "returned" /\ variant # "memory" /\ pass < MaxPasses
    /\ pass' = pass + 1
    /\ counts' = [copied |-> 0, skipped |-> 0, deleted |-> 0]
    /\ todo' = AllGroups(files)
    /\ pc' = "resolve"
    /\ UNCHANGED <<variant, dry_run, use_content_hash, roots, disk, files, processed,
                   result, status, run, failures, hashed, ops, initial,
                   committed, hashvars>>

commit_interval == 100

\* enumerate(hash_values): the index i of the group at the head of todo among
\* the groups of its file type.
GroupIndex(td) ==
    LET all == AllGroups(files)
        n == Len(all) - Len(td) + 1
    IN  Cardinality({j \in 1..(n - 1) : all[j].file_type = all[n].file_type})

\* if i % 100 == 0: self.conn.commit(), and the commit after the last group
\* of a file type.  The memory script has no database.
Commits(td) ==
    /\ variant # "memory"
    /\ \/ GroupIndex(td) % commit_interval = 0
       \/ \A j \in 2..Len(td) : td[j].file_type # td[1].file_type

\* One hash group.  F is the set of paths on which copy or delete fails.
ProcessGroup ==
    /\ pc = "resolve"
    /\ todo # <<>>
    /\ LET rs == duplicate_files(files, Head(todo))
           st == [disk |-> disk, processed |-> processed, counts |-> counts, ops |-> ops]
       IN  \E F \in SUBSET {rs[i].path : i \in 1..Len(rs)}, late \in BOOLEAN :
             LET s1 == HandleGroup(st, rs, F, late)
                 failed == {i \in (Len(ops) + 1)..Len(s1.ops) : ~s1.ops[i].ok}
             IN  /\ F = {s1.ops[i].path : i \in failed}
                 /\ late => failed # {}
                 /\ failures + Cardinality(F) <= MaxFailures
                 /\ failures' = failures + Cardinality(F)
                 /\ disk' = s1.disk
                 /\ processed' = s1.processed
                 /\ counts' = s1.counts
                 /\ ops' = s1.ops
                 /\ committed' = IF Commits(todo) THEN s1.processed ELSE committed
    /\ todo' = Tail(todo)
    /\ UNCHANGED <<variant, dry_run, use_content_hash, roots, files, result, status, pc,
                   run, pass, hashed, initial, hashvars>>

\* The process is killed while a store script handles a hash group, after
\* the side effects of the group and before the commit that follows it: the
\* database file keeps the flags of the last commit.
Interrupt ==
    /\ pc = "resolve"
    /\ todo # <<>>
    /\ variant # "memory"
    /\ LET rs == duplicate_files(files, Head(todo))
           st == [disk |-> disk, processed |-> processed, counts |-> counts, ops |-> ops]
           s1 == HandleGroup(st, rs, {}, FALSE)
       IN  /\ disk' = s1.disk
           /\ processed' = s1.processed
           /\ counts' = s1.counts
           /\ ops' = s1.ops
    /\ todo' = Tail(todo)
    /\ pc' = "interrupted"
    /\ UNCHANGED <<variant, dry_run, use_content_hash, roots, files, result, status,
                   run, pass, failures, hashed, initial, committed, hashvars>>

\* return total_copied + total_replaced, total_skipped, total_deleted
Return ==
    /\ pc = "resolve"
    /\ todo = <<>>
    /\ result' = <<counts>>
    /\ pc' = "returned"
    /\ UNCHANGED <<variant, dry_run, use_content_hash, roots, disk, files, processed, todo,
                   counts, status, run, pass, failures, hashed, ops, initial,
                   committed, hashvars>>

\* main: return 0
Exit ==
    /\ pc = "returned"
    /\ status' = <<0>>
    /\ pc' = "exit"
    /\ UNCHANGED <<variant, dry_run, use_content_hash, roots, disk, files, processed, todo,
                   counts, result, run, pass, failures, hashed, ops, initial,
                   committed, hashvars>>

Next ==
    \/ Main
    \/ ProcessMediaFiles
    \/ ScanTarget
    \/ ScanSource
    \/ ProcessDuplicates
    \/ ProcessGroup
    \/ Interrupt
    \/ Return
    \/ Exit

Spec == Init /\ [][Next]_vars

\* ------------------------------------------------------- perceptual hash
\* The perceptual hashes as functions of the 8 x 8 grid of luminance samples
\* (list(img.getdata()), raster order).  A digest is the sequence of its 16
\* hexadecimal digits.
NumSamples == 64

MaxPixel == 2

RECURSIVE Sum(_)
Sum(px) == IF px = <<>> THEN 0 ELSE Head(px) + Sum(Tail(px))

\* The hexadecimal digits of a string of 64 bits, first bit most significant.
HexDigest(bits) ==
    [j \in 1..(NumSamples \div 4) |->
        8 * bits[4 * j - 3] + 4 * bits[4 * j - 2] + 2 * bits[4 * j - 1] + bits[4 * j]]

\* avg_pixel = sum(pixels) / len(pixels); '1' if pixel >= avg_pixel else '0',
\* joined in raster order; hex(int(bits, 2))[2:].zfill(16).  The division is
\* exact, so pixel >= avg_pixel is len(pixels) * pixel >= sum(pixels).
calculate_image_hash(px) ==
    HexDigest([i \in 1..Len(px) |-> IF Len(px) * px[i] >= Sum(px) THEN 1 ELSE 0])

\* image_cleaner.py: the same statements.
calculate_image_content_hash(px) ==
    HexDigest([i \in 1..Len(px) |-> IF Len(px) * px[i] >= Sum(px) THEN 1 ELSE 0])

\* avg_pixel = sum(pixels) >> 6; bits |= (1 << i) if pixel >= avg_pixel;
\* f"{bits:016x}".  Sample i (from 0) is bit i of the number, so the sample
\* at the m-th place of the printed bit string is sample 64 - m.
calculate_image_hash_fast(px) ==
    LET avg_pixel == Sum(px) \div NumSamples
    IN  HexDigest([m \in 1..Len(px) |-> IF px[Len(px) + 1 - m] >= avg_pixel THEN 1 ELSE 0])

Sites == {"memory", "optimized", "cleaner", "ultra"}

\* The grids tried: one sample of value v among samples of value w.
Grids ==
    {[i \in 1..NumSamples |-> IF i = k THEN v ELSE w] :
        k \in 1..NumSamples, v \in 0..MaxPixel, w \in 0..MaxPixel}

HashInit ==
    /\ pixels \in Grids
    /\ digest = [s \in Sites |-> <<>>]
    /\ variant = "memory"
    /\ dry_run = FALSE
    /\ use_content_hash = TRUE
    /\ roots = [r \in {"source", "target"} |-> TRUE]
    /\ disk = <<>>
    /\ files = <<>>
    /\ processed = {}
    /\ todo = <<>>
    /\ counts = [copied |-> 0, skipped |-> 0, deleted |-> 0]
    /\ result = <<>>
    /\ status = <<>>
    /\ pc = "hash"
    /\ run = 0
    /\ pass = 0
    /\ failures = 0
    /\ hashed = {}
    /\ ops = <<>>
    /\ initial = [disk |-> disk, roots |-> roots]
    /\ committed = {}

HashCall(site, d) ==
    /\ pc = "hash"
    /\ digest[site] = <<>>
    /\ digest' = [digest EXCEPT ![site] = <<d>>]
    /\ UNCHANGED <<variant, dry_run, use_content_hash, roots, disk, files, processed, todo,
                   counts, result, status, pc, run, pass, failures, hashed, ops,
                   initial, committed, pixels>>

HashMemory == HashCall("memory", calculate_image_hash(pixels))

HashOptimized == HashCall("optimized", calculate_image_hash(pixels))

HashCleaner == HashCall("cleaner", calculate_image_content_hash(pixels))

HashUltra == HashCall("ultra", calculate_image_hash_fast(pixels))

HashNext ==
    \/ HashMemory
    \/ HashOptimized
    \/ HashCleaner
    \/ HashUltra

HashSpec == HashInit /\ [][HashNext]_vars

\* ------------------------------------------------------------ image_cleaner
\* os.walk of a root of image_cleaner.  Its should_skip_directory names
\* system directories and directories that start with a dot; the file system
\* of the model has none.
CleanerWalk(d, is_target) ==
    {p \in DOMAIN d : p.tree \in (IF is_target THEN {"T", "B"} ELSE {"S", "B"})}

\* The values of a row of the table images.  The row of a deleted target
\* picture is written after os.remove, with the size 0 of a missing file.
ImageRow(p, b, is_source, deleted) ==
    [path |-> p,
     filename |-> basename(p),
     size |-> IF deleted THEN 0 ELSE getsize(b),
     file_hash |-> calculate_file_hash(b),
     content_hash |-> IF use_content_hash THEN perceptual(b) ELSE None,
     is_source |-> is_source,
     deleted |-> deleted]

\* The loop of scan_source_directory: one INSERT OR IGNORE per picture whose
\* file hash was computed.
RECURSIVE scan_source_directory(_, _, _)
scan_source_directory(rows, d, order) ==
    IF order = <<>> THEN rows
    ELSE LET p == Head(order)
             r == ImageRow(p, d[p], TRUE, FALSE)
         IN  scan_source_directory(
                 IF is_image_file(p, d[p]) /\ r.file_hash # None
                 THEN InsertOrIgnore(rows, r)
                 ELSE rows,
                 d, Tail(order))

\* processed_count: the pictures the walk has met.
image_count(d, is_target) ==
    Cardinality({p \in CleanerWalk(d, is_target) : is_image_file(p, d[p])})

\* The two SELECT COUNT(*) of find_and_delete_from_target: a source row with
\* the file hash, else, with content hashing, a source row with the content
\* hash.
found_in_source(rows, r) ==
    \/ \E i \in 1..Len(rows) : rows[i].is_source /\ rows[i].file_hash = r.file_hash
    \/ /\ r.content_hash # None
       /\ use_content_hash
       /\ \E i \in 1..Len(rows) : /\ rows[i].is_source
                                  /\ rows[i].content_hash # None
                                  /\ rows[i].content_hash = r.content_hash

\* The loop of find_and_delete_from_target over the target pictures; F is
\* the set of paths on which os.remove raises.  A dry run only logs the
\* match: it removes nothing, inserts nothing and does not count.
RECURSIVE find_and_delete_from_target(_, _, _)
find_and_delete_from_target(st, order, F) ==
    IF order = <<>> THEN st
    ELSE LET p == Head(order)
             r == ImageRow(p, st.disk[p], FALSE, TRUE)
             s1 == IF \/ ~is_image_file(p, st.disk[p])
                      \/ r.file_hash = None
                      \/ ~found_in_source(st.rows, r)
                      \/ dry_run
                   THEN st
                   ELSE IF p \in F
                   THEN [st EXCEPT !.ops = Append(@, Op("delete", p, None, FALSE, FALSE))]
                   ELSE [disk |-> [q \in DOMAIN st.disk \ {p} |-> st.disk[q]],
                         rows |-> InsertOrIgnore(st.rows, r),
                         deleted_count |-> st.deleted_count + 1,
                         ops |-> Append(st.ops, Op("delete", p, None, TRUE, FALSE))]
         IN  find_and_delete_from_target(s1, Tail(order), F)

CleanerInit ==
    /\ variant = "cleaner"
    /\ dry_run \in BOOLEAN
    /\ use_content_hash \in BOOLEAN
    /\ roots \in [{"source", "target"} -> BOOLEAN]
    /\ disk \in InitialDisks
    /\ ~roots["source"] => DOMAIN disk \cap (SourcePaths \cup SharedPaths) = {}
    /\ ~roots["target"] => DOMAIN disk \cap (TargetPaths \cup SharedPaths) = {}
    /\ files = <<>>
    /\ processed = {}
    /\ todo = <<>>
    /\ counts = [copied |-> 0, skipped |-> 0, deleted |-> 0]
    /\ result = <<>>
    /\ status = <<>>
    /\ pc = "main"
    /\ run = 0
    /\ pass = 0
    /\ failures = 0
    /\ hashed = {}
    /\ ops = <<>>
    /\ initial = [disk |-> disk, roots |-> roots]
    /\ committed = {}
    /\ pixels = <<>>
    /\ digest = <<>>

\* main of image_cleaner: both directories must exist; then the table is
\* cleared.
CleanerMain ==
    /\ pc = "main"
    /\ IF ~roots["source"] \/ ~roots["target"]
       THEN pc' = "exit" /\ status' = <<1>> /\ files' = files
       ELSE pc' = "scan_source" /\ status' = status /\ files' = <<>>
    /\ UNCHANGED <<variant, dry_run, use_content_hash, roots, disk, processed, todo,
                   counts, result, run, pass, failures, hashed, ops, initial,
                   committed, hashvars>>

\* source_count = cleaner.scan_source_directory(args.source, not args.fast)
ScanSourceDirectory ==
    /\ pc = "scan_source"
    /\ \E order \in Perms(CleanerWalk(disk, FALSE)) :
          files' = scan_source_directory(files, disk, order)
    /\ hashed' = hashed \cup {p \in CleanerWalk(disk, FALSE) : is_image_file(p, disk[p])}
    /\ result' = <<image_count(disk, FALSE)>>
    /\ pc' = "scanned"
    /\ UNCHANGED <<variant, dry_run, use_content_hash, roots, disk, processed, todo,
                   counts, status, run, pass, failures, ops, initial,
                   committed, hashvars>>

\* if source_count == 0: return 0
NoSourceImages ==
    /\ pc = "scanned"
    /\ result = <<0>>
    /\ status' = <<0>>
    /\ pc' = "exit"
    /\ UNCHANGED <<variant, dry_run, use_content_hash, roots, disk, files, processed, todo,
                   counts, result, run, pass, failures, hashed, ops, initial,
                   committed, hashvars>>

\* deleted_count = cleaner.find_and_delete_from_target(args.target,
\* not args.fast, args.dry_run)
FindAndDeleteFromTarget ==
    /\ pc = "scanned"
    /\ result # <<0>>
    /\ \E order \in Perms(CleanerWalk(disk, TRUE)), F \in SUBSET CleanerWalk(disk, TRUE) :
          LET st == [disk |-> disk, rows |-> files, deleted_count |-> 0, ops |-> ops]
              s1 == find_and_delete_from_target(st, order, F)
          IN  /\ F = {s1.ops[i].path : i \in {i \in 1..Len(s1.ops) : ~s1.ops[i].ok}}
              /\ Cardinality(F) <= MaxFailures
              /\ failures' = Cardinality(F)
              /\ disk' = s1.disk
              /\ files' = s1.rows
              /\ ops' = s1.ops
              /\ counts' = [counts EXCEPT !.deleted = s1.deleted_count]
              /\ result' = <<s1.deleted_count>>
    /\ hashed' = hashed \cup {p \in CleanerWalk(disk, TRUE) : is_image_file(p, disk[p])}
    /\ pc' = "returned"
    /\ UNCHANGED <<variant, dry_run, use_content_hash, roots, processed, todo,
                   status, run, pass, initial, committed, hashvars>>

\* generate_report, close_database, return 0
CleanerExit ==
    /\ pc = "returned"
    /\ status' = <<0>>
    /\ pc' = "exit"
    /\ UNCHANGED <<variant, dry_run, use_content_hash, roots, disk, files, processed, todo,
                   counts, result, run, pass, failures, hashed, ops, initial,
                   committed, hashvars>>

CleanerNext ==
    \/ CleanerMain
    \/ ScanSourceDirectory
    \/ NoSourceImages
    \/ FindAndDeleteFromTarget
    \/ CleanerExit

CleanerSpec == CleanerInit /\ [][CleanerNext]_vars

\* ------------------------------------------------------------ properties
Zero == [copied |-> 0, skipped |-> 0, deleted |-> 0]

Rows == 1..Len(files)

OpsOf(r, ps) == {i \in 1..Len(ops) : ops[i].run = r /\ ops[i].pass = ps}

NoFailedOps == \A i \in 1..Len(ops) : ops[i].ok

FirstRunDone == pc = "returned" /\ run = 1 /\ pass = 1

Deleted(p) ==
    \E i \in 1..Len(ops) : /\ ops[i].op = "delete" /\ ops[i].ok
                            /\ ops[i].run = run
                            /\ ops[i].path = p

\* The file of a record is present under the destination tree: a target
\* file that was not deleted, a source file of which a copy exists.
Present(r) ==
    IF r.is_target THEN ~Deleted(r.path)
    ELSE \E i \in 1..Len(ops) : /\ ops[i].op = "copy" /\ ops[i].ok
                                 /\ ops[i].run = run
                                 /\ ops[i].path = r.path
                                 /\ ops[i].dest \in DOMAIN disk

\* The duplicate groups of the inventory: the rows of one type with one
\* exact hash and, with content hashing, the pictures with one perceptual
\* hash.
DuplicateGroups ==
    LET exact == {{i \in Rows : /\ files[i].file_type = files[k].file_type
                                /\ files[i].file_hash = files[k].file_hash} : k \in Rows}
        content == {{i \in Rows : /\ files[i].file_type = "image"
                                  /\ files[i].content_hash = files[k].content_hash} :
                       k \in {k \in Rows : /\ use_content_hash
                                           /\ files[k].file_type = "image"
                                           /\ files[k].content_hash # None}}
    IN  {G \in exact \cup content : Cardinality({files[i].path : i \in G}) >= 2}

MaxSize(G) == CHOOSE n \in {files[i].size : i \in G} : \A i \in G : files[i].size <= n

\* C1 (as claimed): after a failure-free run every duplicate group has exactly
\* one member present under the destination tree, a member of maximum size,
\* and a target member when a target member has the maximum size.
C1_OneSurvivorPerGroup ==
    (FirstRunDone /\ NoFailedOps) =>
        \A G \in DuplicateGroups :
            LET present == {i \in G : Present(files[i])}
            IN  /\ Cardinality({files[i].path : i \in present}) = 1
                /\ \A i \in present :
                      /\ files[i].size = MaxSize(G)
                      /\ (\E j \in G : files[j].is_target /\ files[j].size = MaxSize(G))
                            => files[i].is_target

\* C2 (as claimed): a second process_media_files on the same roots copies,
\* deletes and skips nothing and leaves the destination tree as it was.
C2_SecondRunDoesNothing ==
    (pc = "returned" /\ run = 2 /\ pass = 2 /\ NoFailedOps) =>
        /\ result = <<Zero>>
        /\ \A i \in 1..Len(ops) : ops[i].run = 1

\* C3 (as claimed): with content hashing, a small target picture and a larger
\* source picture with different exact hashes and one perceptual hash give
\* target deleted, source copied, result (1, 0, 1), in every variant.
C3_PerceptualPairResolved ==
    (/\ FirstRunDone /\ NoFailedOps /\ use_content_hash
     /\ Len(files) = 2
     /\ files[1].is_target /\ ~files[2].is_target
     /\ files[1].file_type = "image" /\ files[2].file_type = "image"
     /\ files[1].file_hash # files[2].file_hash
     /\ files[1].content_hash # None
     /\ files[1].content_hash = files[2].content_hash
     /\ files[1].size < files[2].size)
    => /\ result = <<[copied |-> 1, skipped |-> 0, deleted |-> 1]>>
       /\ Deleted(files[1].path)
       /\ Present(files[2])

\* The record the resolver treats as the largest of a group.
Winner(rs) == IF variant = "memory" THEN Largest(rs) ELSE rs[1]

\* C4 (as claimed): in a group whose maximum size is shared by a target and a
\* source record the winner is a target record, and two identical files, one
\* per tree, give (0, 1, 0).
C4_TieGoesToTarget ==
    /\ pc \in {"process_duplicates", "resolve", "returned"} =>
          \A k \in Range(AllGroups(files)) :
              LET rs == duplicate_files(files, k)
                  top == {i \in 1..Len(rs) : \A j \in 1..Len(rs) : rs[j].size <= rs[i].size}
              IN  (/\ Len(rs) >= 2
                   /\ \E i \in top : rs[i].is_target
                   /\ \E i \in top : ~rs[i].is_target)
                  => Winner(rs).is_target
    /\ (/\ FirstRunDone /\ NoFailedOps
        /\ Len(files) = 2
        /\ files[1].is_target /\ ~files[2].is_target
        /\ files[1].file_type = files[2].file_type
        /\ files[1].file_hash = files[2].file_hash)
       => result = <<[copied |-> 0, skipped |-> 1, deleted |-> 0]>>

\* C5: no copy writes to a path that exists at the moment of the copy; the
\* copy lands in the directory of its type under the plain or a suffixed
\* name, and a file that was there before keeps its content.
C5_CopyNeverOverwrites ==
    /\ \A i \in 1..Len(ops) :
          ops[i].op = "copy" =>
              /\ ~ops[i].existed
              /\ ops[i].dest.tree = "T"
              /\ ops[i].dest.dir = get_target_directory(get_file_type(ops[i].path))
              /\ ops[i].dest.ext = ops[i].path.ext
              /\ \/ ops[i].dest.stem = ops[i].path.stem
                 \/ /\ Len(ops[i].dest.stem) = Len(ops[i].path.stem) + 1
                    /\ SubSeq(ops[i].dest.stem, 1, Len(ops[i].path.stem)) = ops[i].path.stem
                    /\ ops[i].dest.stem[Len(ops[i].dest.stem)] \in Nat \ {0}
    /\ \A p \in DOMAIN initial.disk :
          (\A i \in 1..Len(ops) : ~(ops[i].op = "delete" /\ ops[i].ok /\ ops[i].path = p))
              => p \in DOMAIN disk /\ disk[p] = initial.disk[p]

\* Two source files of one name were copied in one pass, the second one under
\* a suffixed name, and the first copy is still what it was.
C5_Witness ==
    \E i, j \in 1..Len(ops) :
        /\ i < j
        /\ ops[i].op = "copy" /\ ops[i].ok
        /\ ops[j].op = "copy" /\ ops[j].ok
        /\ ops[i].pass = ops[j].pass
        /\ ops[i].path # ops[j].path
        /\ basename(ops[i].path) = basename(ops[j].path)
        /\ ops[j].dest.stem = Append(ops[j].path.stem, 1)
        /\ ops[i].dest \in DOMAIN disk
        /\ disk[ops[i].dest] = disk[ops[i].path]
        /\ disk[ops[j].dest] = disk[ops[j].path]
        /\ disk[ops[i].dest] # disk[ops[j].dest]

\* C6 (as claimed): every delete is of a target record and the file of every
\* source record is on disk, unchanged, whatever happened to the record.
C6_SourceFilesSurvive ==
    /\ \A i \in 1..Len(ops) :
          (ops[i].op = "delete" /\ ops[i].run = run) =>
              \E k \in Rows : files[k].path = ops[i].path /\ files[k].is_target
    /\ \A k \in Rows :
          ~files[k].is_target =>
              /\ files[k].path \in DOMAIN disk
              /\ disk[files[k].path] = initial.disk[files[k].path]

\* C6 (amended): every delete is of a target record, and every file that only
\* the walk of the source root reaches is on disk, unchanged.
C6_SourceOnlyFilesSurvive ==
    /\ \A i \in 1..Len(ops) :
          (ops[i].op = "delete" /\ ops[i].run = run) =>
              \E k \in Rows : files[k].path = ops[i].path /\ files[k].is_target
    /\ \A p \in DOMAIN initial.disk :
          p.tree = "S" => p \in DOMAIN disk /\ disk[p] = initial.disk[p]

\* A pass deleted a target file, copied a source file and skipped another.
C6_Witness ==
    /\ pc = "returned"
    /\ \E i, j, k \in OpsOf(run, pass) :
          /\ ops[i].op = "delete" /\ ops[i].ok
          /\ ops[j].op = "copy" /\ ops[j].ok /\ ops[j].path.tree = "S"
          /\ ops[k].op = "skip" /\ ops[k].path.tree = "S"

Dispositions(p) == {i \in OpsOf(run, pass) : ops[i].path = p /\ ops[i].ok}

Counted(o) == Cardinality({i \in OpsOf(run, pass) : ops[i].op = o /\ ops[i].ok})

\* C7: in one pass a path gets at most one of copy, delete and skip, and the
\* counters count each disposition once.
C7_OneDispositionPerPath ==
    /\ \A i \in OpsOf(run, pass) : Cardinality(Dispositions(ops[i].path)) <= 1
    /\ counts = [copied |-> Counted("copy"), skipped |-> Counted("skip"),
                 deleted |-> Counted("delete")]

\* A picture that is in an exact-hash group and in a perceptual-hash group of
\* two or more got its disposition, and the pass went through both groups.
C7_Witness ==
    /\ pc = "returned"
    /\ variant = "memory"
    /\ \E k \in Rows :
          /\ Dispositions(files[k].path) # {}
          /\ Key("image", "file_hash", files[k].file_hash) \in Range(AllGroups(files))
          /\ Key("image", "content_hash", files[k].content_hash) \in Range(AllGroups(files))
          /\ Len(duplicate_files(files, Key("image", "file_hash", files[k].file_hash))) >= 2
          /\ Len(duplicate_files(files, Key("image", "content_hash", files[k].content_hash))) >= 3

\* C8: in the store scripts a failed copy or delete leaves its record
\* unprocessed and uncounted, the records processed before stay processed,
\* and the next pass over the same store attempts the operation again.
C8_FailedOperationIsRetried ==
    variant # "memory" =>
        /\ \A i \in OpsOf(run, pass) : ~ops[i].ok => ops[i].path \notin processed
        /\ counts = [copied |-> Counted("copy"), skipped |-> Counted("skip"),
                     deleted |-> Counted("delete")]
        /\ \A i \in 1..Len(ops) : (ops[i].run = run /\ ops[i].ok) => ops[i].path \in processed
        /\ \A i \in 1..Len(ops) :
              (/\ ~ops[i].ok
               /\ ops[i].run = run
               /\ \/ pass > ops[i].pass + 1
                  \/ pass = ops[i].pass + 1 /\ pc \in {"returned", "exit"})
              => \E j \in OpsOf(run, ops[i].pass + 1) :
                     ops[j].op = ops[i].op /\ ops[j].path = ops[i].path

\* An operation failed in one pass and succeeded in the next pass over the
\* same store, after other members of its group had been processed.
C8_Witness ==
    /\ variant # "memory"
    /\ pc = "returned"
    /\ \E i, j, k \in 1..Len(ops) :
          /\ ~ops[i].ok
          /\ ops[j].run = ops[i].run /\ ops[j].pass = ops[i].pass + 1
          /\ ops[j].op = ops[i].op /\ ops[j].path = ops[i].path /\ ops[j].ok
          /\ ops[k].ok /\ ops[k].run = ops[i].run /\ ops[k].pass = ops[i].pass

Scanning == pc \in {"scan_target", "scan_source", "process_duplicates", "resolve", "returned"}

\* C9 (as claimed): with either root missing the run never scans, touches
\* nothing and exits with status 1; with both roots it exits with status 0
\* and the counters.
C9_MissingRootAborts ==
    /\ (~initial.roots["source"] \/ ~initial.roots["target"]) =>
          /\ ~Scanning /\ hashed = {} /\ ops = <<>>
          /\ pc = "exit" => status = <<1>>
    /\ (initial.roots["source"] /\ initial.roots["target"] /\ pc = "exit") =>
          status = <<0>> /\ result # <<>>

\* C9 (amended): a missing source root ends the run with status 1 before any
\* scan; a missing target root is created and the run goes on; whenever the
\* source root exists the run exits with status 0 and the counters.
C9_MissingSourceAborts ==
    /\ ~initial.roots["source"] =>
          /\ ~Scanning /\ hashed = {} /\ ops = <<>> /\ disk = initial.disk
          /\ pc = "exit" => status = <<1>>
    /\ initial.roots["source"] =>
          /\ Scanning => roots["target"]
          /\ pc = "exit" => status = <<0>> /\ result # <<>> /\ roots["target"]

\* A run without a target root that copied a file and exited with status 0.
C9_Witness ==
    /\ pc = "exit"
    /\ ~initial.roots["target"]
    /\ status = <<0>>
    /\ \E i \in 1..Len(ops) : ops[i].op = "copy" /\ ops[i].ok

InvalidImage(p) == get_file_type(p) = "image" /\ ~verify(disk[p])

Untouched(p) ==
    /\ p \notin hashed
    /\ \A k \in Rows : files[k].path # p
    /\ \A i \in 1..Len(ops) : ops[i].path # p

\* C10 (as claimed): in every variant a file with an image extension that
\* fails the validity check is never hashed, never recorded and never copied,
\* skipped or deleted.
C10_InvalidImageExcluded ==
    \A p \in DOMAIN disk : InvalidImage(p) => Untouched(p)

\* C10 (amended): that holds in the memory and optimized scripts; the ultra
\* script checks the extension only.
C10_InvalidImageExcludedWhereVerified ==
    variant # "ultra" => \A p \in DOMAIN disk : InvalidImage(p) => Untouched(p)

\* A run over a source tree with a corrupt picture and a good file finished
\* and copied the good file only.
C10_Witness ==
    /\ variant # "ultra"
    /\ pc = "returned"
    /\ \E p \in DOMAIN disk : p.tree = "S" /\ InvalidImage(p)
    /\ result = <<[copied |-> 1, skipped |-> 0, deleted |-> 0]>>

\* C11: every copy is written directly inside the directory of its type, the
\* target root for images, mp4 for videos, zip for archives; after a pass
\* without failures a source record whose hashes match no other record has
\* been copied exactly once, and a run over that record alone returns
\* (1, 0, 0).
C11_CopiedIntoDirectoryOfType ==
    /\ \A i \in 1..Len(ops) :
          ops[i].op = "copy" =>
              /\ ops[i].dest.tree = "T"
              /\ ops[i].path.ext = "jpg" => ops[i].dest.dir = ""
              /\ ops[i].path.ext = "mp4" => ops[i].dest.dir = "mp4"
              /\ ops[i].path.ext = "zip" => ops[i].dest.dir = "zip"
    /\ (pc = "returned" /\ NoFailedOps) =>
          /\ \A k \in Rows :
                (/\ ~files[k].is_target
                 /\ files[k].file_hash # None
                 /\ \A j \in Rows \ {k} :
                       files[j].file_type = files[k].file_type =>
                           /\ files[j].file_hash # files[k].file_hash
                           /\ files[k].content_hash # None =>
                                 files[j].content_hash # files[k].content_hash)
                => Cardinality({i \in 1..Len(ops) : /\ ops[i].run = run
                                                     /\ ops[i].op = "copy" /\ ops[i].ok
                                                     /\ ops[i].path = files[k].path}) = 1
          /\ (pass = 1 /\ Len(files) = 1 /\ ~files[1].is_target)
                => result = <<[copied |-> 1, skipped |-> 0, deleted |-> 0]>>

\* A run over a source tree with one video and nothing else copied it into
\* mp4 and returned (1, 0, 0).
C11_Witness ==
    /\ FirstRunDone
    /\ Len(files) = 1
    /\ files[1].file_type = "video"
    /\ result = <<[copied |-> 1, skipped |-> 0, deleted |-> 0]>>
    /\ Path("T", "mp4", files[1].path.stem, "mp4") \in DOMAIN disk
    /\ \E i \in 1..Len(ops) : ops[i].op = "copy" /\ ops[i].ok /\ ops[i].dest.dir = "mp4"

\* C12 (as claimed): a path that is processed stays processed in every later
\* state, across passes and across successive runs on one store.
C12_ProcessedNeverReset == [][processed \subseteq processed']_vars

\* C12 (amended): within one run, across its resolution passes, a processed
\* record stays processed; the next run deletes every record of the store and
\* records the paths anew, unprocessed.
C12_ProcessedMonotoneWithinRun ==
    [][/\ run' = run => processed \subseteq processed'
       /\ run' # run => (files' = <<>> /\ processed' = {})]_vars

\* A second pass over the store of one run found records processed by the
\* first pass and has finished.
C12_Witness ==
    /\ variant # "memory"
    /\ pc = "returned"
    /\ run = 1 /\ pass = 2
    /\ \E i \in OpsOf(1, 1) : ops[i].ok /\ ops[i].path \in processed

SideEffectDone(p) ==
    \E i \in 1..Len(ops) : /\ ops[i].run = run /\ ops[i].ok
                            /\ ops[i].op \in {"copy", "delete"}
                            /\ ops[i].path = p

\* C13 (as claimed): whenever a store script is interrupted, every record
\* whose flag is committed has its disposition behind it, and at most one
\* record has a completed copy or delete while its committed flag is false.
C13_StoreReflectsSideEffects ==
    variant # "memory" =>
        /\ \A p \in committed :
              \/ \E i \in 1..Len(ops) : ops[i].run = run /\ ops[i].ok /\ ops[i].path = p
              \/ \E k \in Rows : files[k].path = p /\ files[k].is_target
        /\ Cardinality({p \in {files[k].path : k \in Rows} :
                            SideEffectDone(p) /\ p \notin committed}) <= 1

Inventoried(d, is_target) ==
    \A p \in Walk(d, is_target) :
        Recorded(p, d[p], is_target) =>
            \E k \in Rows : /\ files[k].path = p
                             /\ files[k] = Record(p, d[p], files[k].is_target)
                             /\ is_target => files[k].is_target

\* C14: while the trees are scanned no group has been read and no copy or
\* delete of the run has been made; the source scan starts from the whole
\* target inventory, and resolution starts, and works, on an inventory that
\* holds every recordable file of both trees.
C14_ResolutionSeesWholeInventory ==
    /\ pc \in {"main", "process_media_files", "scan_target", "scan_source",
               "process_duplicates"} =>
          /\ todo = <<>>
          /\ \A i \in 1..Len(ops) : ops[i].run < run
    /\ pc = "scan_target" => files = <<>>
    /\ pc = "scan_source" => Inventoried(disk, TRUE)
    /\ pc = "process_duplicates" => Inventoried(disk, TRUE) /\ Inventoried(disk, FALSE)
    /\ (run = 1 /\ pc \in {"resolve", "returned", "interrupted"}) =>
          Inventoried(initial.disk, TRUE) /\ Inventoried(initial.disk, FALSE)

\* The ultra script resolves an inventory of three rows, from both trees,
\* that its scans inserted with the batch left at the end of the loop.
C14_Witness ==
    /\ variant = "ultra"
    /\ pc = "resolve"
    /\ Len(files) = 3
    /\ \E j, k \in Rows : files[j].is_target /\ ~files[k].is_target
    /\ \E i \in 1..Len(ops) : ops[i].run = run /\ ops[i].ok

\* C15: a further pass of process_duplicates over the store of a run whose
\* first pass had no failure performs no operation and returns (0, 0, 0).
C15_SecondPassDoesNothing ==
    (/\ variant # "memory"
     /\ pc = "returned"
     /\ run = 1 /\ pass >= 2
     /\ \A i \in OpsOf(1, 1) : ops[i].ok)
    => /\ result = <<Zero>>
       /\ \A i \in 1..Len(ops) : ops[i].pass = 1

\* The first pass copied and skipped, the second pass has returned.
C15_Witness ==
    /\ variant # "memory"
    /\ pc = "returned"
    /\ run = 1 /\ pass = 2
    /\ result = <<Zero>>
    /\ \E i, k \in OpsOf(1, 1) :
          /\ ops[i].op = "copy" /\ ops[i].ok
          /\ ops[k].op = "skip"
    /\ \A i \in OpsOf(1, 1) : ops[i].ok

\* C16 (as claimed): in every variant the inventory has at most one record
\* per path, and a path that both walks reach is recorded as target.
C16_OneRecordPerPath ==
    /\ \A i, j \in Rows : files[i].path = files[j].path => i = j
    /\ \A k \in Rows : files[k].path.tree = "B" => files[k].is_target

\* C16 (amended): that holds in the store scripts; in the memory script a
\* path that both walks reach has a target and a source record, and every
\* group the resolver handles holds the path once, with the target record.
C16_OneRecordPerPathInStore ==
    /\ variant # "memory" =>
          /\ \A i, j \in Rows : files[i].path = files[j].path => i = j
          /\ \A k \in Rows : files[k].path.tree = "B" => files[k].is_target
    /\ \A key \in Range(AllGroups(files)) :
          LET rs == duplicate_files(files, key)
          IN  /\ \A i, j \in 1..Len(rs) : rs[i].path = rs[j].path => i = j
              /\ \A i \in 1..Len(rs) : rs[i].path.tree = "B" => rs[i].is_target

\* Both scans of a store script walked a shared file; it is in the table
\* once, as a target row, beside another row.
C16_Witness ==
    /\ variant # "memory"
    /\ pc = "process_duplicates"
    /\ Len(files) >= 2
    /\ \E p \in Walk(disk, TRUE) \cap Walk(disk, FALSE) :
          \E k \in Rows : files[k].path = p /\ files[k].is_target

\* C17 (as claimed): no record of the inventory has a null exact hash,
\* whichever tree it was scanned from.
C17_NoNullHashInInventory ==
    \A k \in Rows : files[k].file_hash # None

\* C17 (amended): no record of a store script and no source record has a
\* null exact hash; the scan of the target tree of the memory script keeps
\* such a record, but no hash group holds it and no operation touches it.
\* The scan goes on after a file that cannot be hashed.
C17_NoNullHashInGroups ==
    /\ \A k \in Rows :
          (variant # "memory" \/ ~files[k].is_target) => files[k].file_hash # None
    /\ \A key \in Range(AllGroups(files)) :
          LET rs == duplicate_files(files, key)
          IN  \A i \in 1..Len(rs) : rs[i].file_hash # None
    /\ \A k \in Rows :
          files[k].file_hash = None =>
              \A i \in 1..Len(ops) : ops[i].run = run => ops[i].path # files[k].path
    /\ pc = "process_duplicates" =>
          \A p \in Walk(disk, FALSE) :
              (Hashable(p, disk[p]) /\ calculate_file_hash(disk[p]) # None) =>
                  \E k \in Rows : files[k].path = p

\* A run over trees that each hold an unreadable file copied a readable one.
C17_Witness ==
    /\ pc = "returned"
    /\ \E p, q \in DOMAIN disk :
          /\ p.tree = "T" /\ disk[p] = "B5"
          /\ q.tree = "S" /\ disk[q] = "B5"
    /\ \E i \in 1..Len(ops) : ops[i].op = "copy" /\ ops[i].ok

\* C18 (as claimed): every call site computes, for one grid of samples, the
\* same digest: bit 1 where the sample is at least the mean of the samples,
\* the first sample in the most significant bit.
C18_DigestsAgree ==
    pc = "hash" =>
        \A site \in Sites :
            digest[site] # <<>> =>
                /\ digest[site] = <<HexDigest([i \in 1..NumSamples |->
                                       IF NumSamples * pixels[i] >= Sum(pixels) THEN 1 ELSE 0])>>
                /\ \A other \in Sites : digest[other] # <<>> => digest[other] = digest[site]

\* The step of the resolution loop that handles the group at the head of todo.
GroupStep == pc = "resolve" /\ todo # <<>> /\ pc' = "resolve" /\ todo' = Tail(todo)

Did(log, o, p) ==
    \E i \in 1..Len(log) : /\ log[i].run = run /\ log[i].op = o /\ log[i].ok
                            /\ log[i].path = p

\* C19 (as claimed): when a group of two or more whose winner is a target
\* record has been handled and no operation has failed, every other target
\* member is deleted, every source member is skipped and not copied, the
\* file of the winner is as it was, and every member is processed.
C19_TargetWinnerGroup ==
    [][(/\ GroupStep
        /\ \A i \in 1..Len(ops') : ops'[i].ok
        /\ Len(duplicate_files(files, Head(todo))) >= 2
        /\ Winner(duplicate_files(files, Head(todo))).is_target)
       => LET rs == duplicate_files(files, Head(todo))
              w == Winner(rs)
          IN  /\ \A i \in 1..Len(rs) :
                    (rs[i].is_target /\ rs[i] # w) => Did(ops', "delete", rs[i].path)
              /\ \A i \in 1..Len(rs) :
                    ~rs[i].is_target =>
                        Did(ops', "skip", rs[i].path) /\ ~Did(ops', "copy", rs[i].path)
              /\ ~Did(ops', "delete", w.path)
              /\ w.path \in DOMAIN disk =>
                    w.path \in DOMAIN disk' /\ disk'[w.path] = disk[w.path]
              /\ \A i \in 1..Len(rs) : rs[i].path \in processed']_vars

\* C20 (as claimed): when a group of two or more whose winner is a source
\* record has been handled and no operation has failed, every target member
\* is deleted, the winner is copied exactly once and after the deletions,
\* every other source member is skipped, and every member is processed.
C20_SourceWinnerGroup ==
    [][(/\ GroupStep
        /\ \A i \in 1..Len(ops') : ops'[i].ok
        /\ Len(duplicate_files(files, Head(todo))) >= 2
        /\ ~Winner(duplicate_files(files, Head(todo))).is_target)
       => LET rs == duplicate_files(files, Head(todo))
              w == Winner(rs)
              log == ops'
          IN  /\ \A i \in 1..Len(rs) : rs[i].is_target => Did(log, "delete", rs[i].path)
              /\ Cardinality({j \in 1..Len(log) : /\ log[j].run = run
                                                   /\ log[j].op = "copy" /\ log[j].ok
                                                   /\ log[j].path = w.path}) = 1
              /\ \A i \in 1..Len(rs) :
                    (~rs[i].is_target /\ rs[i] # w) =>
                        Did(log, "skip", rs[i].path) /\ ~Did(log, "copy", rs[i].path)
              /\ \A i \in 1..Len(rs), j, k \in 1..Len(log) :
                    (/\ rs[i].is_target
                     /\ log[j].run = run /\ log[j].op = "delete" /\ log[j].path = rs[i].path
                     /\ log[k].run = run /\ log[k].op = "copy" /\ log[k].path = w.path)
                    => j < k
              /\ \A i \in 1..Len(rs) : rs[i].path \in processed']_vars

\* The operations of the run in which no copy and no delete failed.
RunClean == \A i \in 1..Len(ops) : ops[i].run = run => ops[i].ok

\* The operations the step has added to the log.
NewOps == SubSeq(ops', Len(ops) + 1, Len(ops'))

\* Every group of the inventory that holds the record has one member.
SingletonOnly(r) ==
    \A k \in Range(AllGroups(files)) :
        InGroup(r, k) => Len(duplicate_files(files, k)) = 1

\* The source-origin rows whose path has no target-origin row.
SourceRows == {k \in Rows : /\ ~files[k].is_target
                            /\ \A j \in Rows : files[j].is_target => files[j].path # files[k].path}

ExistingAt(j) ==
    DOMAIN disk \ {NewOps[i].path : i \in {i \in 1..(j - 1) : NewOps[i].op = "delete" /\ NewOps[i].ok}}

\* C22: the destination of every copy is the plain file name in the directory
\* of the type when no file of that name exists there, and otherwise
\* name_k.ext for the smallest k >= 1 for which no such file exists; the
\* destination never names an existing file.
C22_CollisionLoop ==
    [][\A j \in 1..Len(NewOps) :
          NewOps[j].op = "copy" =>
              LET src == NewOps[j].path
                  dir == get_target_directory(get_file_type(src))
                  D == ExistingAt(j)
                  name(k) == Path("T", dir, Append(src.stem, k), src.ext)
                  plain == Path("T", dir, src.stem, src.ext)
              IN  /\ NewOps[j].dest \notin D
                  /\ ~NewOps[j].existed
                  /\ IF plain \notin D THEN NewOps[j].dest = plain
                     ELSE \E k \in 1..(Cardinality(D) + 1) :
                              /\ NewOps[j].dest = name(k)
                              /\ \A i \in 1..(k - 1) : name(i) \in D]_vars

\* Two copies of one pass were given the names name_1.ext and name_2.ext, and
\* another one the plain name.
C22_Witness ==
    /\ \E i, j \in 1..Len(ops) :
          /\ ops[i].op = "copy" /\ ops[i].ok /\ ops[i].dest.stem = Append(ops[i].path.stem, 1)
          /\ ops[j].op = "copy" /\ ops[j].ok /\ ops[j].dest.stem = Append(ops[j].path.stem, 2)
          /\ ops[i].run = ops[j].run /\ ops[i].pass = ops[j].pass
    /\ \E i \in 1..Len(ops) :
          ops[i].op = "copy" /\ ops[i].ok /\ ops[i].dest.stem = ops[i].path.stem

\* Row j is a duplicate of row i: another path of the same type with the same
\* exact hash or the same perceptual hash.
DuplicateOf(i, j) ==
    /\ files[j].path # files[i].path
    /\ files[j].file_type = files[i].file_type
    /\ \/ files[j].file_hash = files[i].file_hash /\ files[i].file_hash # None
       \/ files[j].content_hash = files[i].content_hash /\ files[i].content_hash # None

\* C23: every member of a group has the type of the group, so records of
\* different types never share a group; a file is deleted or skipped only
\* when a record of its own type has one of its hashes, and after a pass
\* without failure a source record with no duplicate of its own type has
\* been copied, whatever records of other types have the same exact hash.
C23_GroupsPerType ==
    /\ \A k \in Range(AllGroups(files)) :
          \A i \in 1..Len(duplicate_files(files, k)) :
              duplicate_files(files, k)[i].file_type = k.file_type
    /\ \A n \in 1..Len(ops) :
          (ops[n].run = run /\ ops[n].op \in {"delete", "skip"}) =>
              \E i, j \in Rows : files[i].path = ops[n].path /\ DuplicateOf(i, j)
    /\ (pc = "returned" /\ RunClean) =>
          \A i \in SourceRows :
              (\A j \in Rows : ~DuplicateOf(i, j)) => Did(ops, "copy", files[i].path)

\* A run has ended with a source record copied and a target record kept that
\* have the same exact hash and different types.
C23_Witness ==
    /\ pc = "returned" /\ RunClean
    /\ \E i, j \in Rows :
          /\ ~files[i].is_target /\ files[j].is_target
          /\ files[i].file_type # files[j].file_type
          /\ files[i].file_hash = files[j].file_hash /\ files[i].file_hash # None
          /\ Did(ops, "copy", files[i].path)
          /\ ~Deleted(files[j].path) /\ files[j].path \in DOMAIN disk

\* The winner of a group by the stated rule: the largest member, a target
\* member when a target and a source member share the largest size.
StatedWinner(rs) == OrderBy(rs)[1]

\* The file of the target record is as the scan found it: it exists, no
\* operation of the run has named it and no copy of the run has landed on it.
LeftAlone(r) ==
    /\ r.path \in DOMAIN disk
    /\ r.file_hash # None => disk[r.path] = r.file_hash
    /\ \A n \in 1..Len(ops) :
          ops[n].run = run =>
              /\ ops[n].path # r.path
              /\ ops[n].op = "copy" => ops[n].dest # r.path

\* C24 (as claimed): a target file is deleted only as a member of a group of
\* two or more of which it is not the winner, and a target file whose hashes
\* match no other record is neither deleted nor overwritten nor renamed.
C24_TargetDeletedOnlyAsLoser ==
    /\ \A n \in 1..Len(ops) :
          (ops[n].run = run /\ ops[n].op = "delete" /\ ops[n].ok) =>
              \E k \in Range(AllGroups(files)) :
                  LET rs == duplicate_files(files, k)
                  IN  /\ Len(rs) >= 2
                      /\ \E i \in 1..Len(rs) : /\ rs[i].path = ops[n].path
                                               /\ rs[i].is_target
                                               /\ rs[i] # StatedWinner(rs)
    /\ \A i \in Rows :
          (files[i].is_target /\ \A j \in Rows : ~DuplicateOf(i, j)) => LeftAlone(files[i])

\* The frame half of C24 alone.
C24_UnmatchedTargetLeftAlone ==
    \A i \in Rows :
        (files[i].is_target /\ \A j \in Rows : ~DuplicateOf(i, j)) => LeftAlone(files[i])

\* C25: a picture whose exact hash is computed and whose perceptual hash
\* cannot be computed (content B4) is recorded with its exact hash and no
\* content hash, the scan records the other files as well, and every group
\* that holds the record is the group of its exact hash.
C25_NoPerceptualHash ==
    /\ (run = 1 /\ pc \in {"process_duplicates", "resolve", "returned", "interrupted"}) =>
          /\ \A p \in Walk(initial.disk, TRUE) \cup Walk(initial.disk, FALSE) :
                (get_file_type(p) = "image" /\ initial.disk[p] = "B4") =>
                    \E k \in Rows : /\ files[k].path = p
                                     /\ files[k].file_hash = "B4"
                                     /\ files[k].content_hash = None
          /\ Inventoried(initial.disk, TRUE) /\ Inventoried(initial.disk, FALSE)
    /\ \A k \in Range(AllGroups(files)) :
          \A i \in 1..Len(duplicate_files(files, k)) :
              duplicate_files(files, k)[i].file_hash = "B4" =>
                  k.kind = "file_hash" /\ k.value = "B4"

\* With content hashing on, a source picture without perceptual hash was
\* recorded next to two pictures that share a perceptual hash, and was copied
\* as the only member of the group of its exact hash.
C25_Witness ==
    /\ pc = "returned" /\ use_content_hash
    /\ \E k \in SourceRows :
          /\ files[k].file_hash = "B4" /\ files[k].content_hash = None
          /\ SingletonOnly(files[k])
          /\ Did(ops, "copy", files[k].path)
    /\ \E i, j \in Rows : /\ i # j /\ files[i].content_hash # None
                          /\ files[i].content_hash = files[j].content_hash

\* The inventory with every content hash absent.
NoContentHash(rs) == [i \in 1..Len(rs) |-> [rs[i] EXCEPT !.content_hash = None]]

\* The two paths are members of a common group.
Grouped(p, q) ==
    \E k \in Range(AllGroups(files)) :
        {p, q} \subseteq {duplicate_files(files, k)[i].path : i \in 1..Len(duplicate_files(files, k))}

\* C26: in fast mode every group is the group of an exact hash, two pictures
\* are in a common group exactly when their exact hashes are equal, the
\* groups are those of the inventory without its content hashes, and every
\* group is handled as the group of that inventory would be: the same files,
\* the same operations, the same marks and the same counters.
C26_FastMode ==
    /\ [](~use_content_hash =>
            /\ \A k \in Range(AllGroups(files)) : k.kind = "file_hash"
            /\ \A i, j \in Rows :
                  (/\ files[i].file_type = "image" /\ files[j].file_type = "image"
                   /\ files[i].path # files[j].path)
                  => (Grouped(files[i].path, files[j].path)
                         <=> (files[i].file_hash = files[j].file_hash /\ files[i].file_hash # None))
            /\ AllGroups(NoContentHash(files)) = AllGroups(files)
            /\ \A k \in Range(AllGroups(files)) :
                  duplicate_files(NoContentHash(files), k) = NoContentHash(duplicate_files(files, k)))
    /\ [][(GroupStep /\ ~use_content_hash)
          => \E F \in SUBSET {files[i].path : i \in Rows}, late \in BOOLEAN :
                LET st == [disk |-> disk, processed |-> processed, counts |-> counts, ops |-> ops]
                    s1 == HandleGroup(st, duplicate_files(NoContentHash(files), Head(todo)), F, late)
                IN  /\ disk' = s1.disk /\ processed' = s1.processed
                    /\ counts' = s1.counts /\ ops' = s1.ops]_vars

\* A fast-mode run has ended with two pictures of one perceptual hash and
\* different exact hashes, one per tree, both kept: the source one copied,
\* the target one in place.
C26_Witness ==
    /\ pc = "returned" /\ ~use_content_hash
    /\ \E i, j \in Rows :
          /\ files[i].is_target /\ ~files[j].is_target
          /\ files[i].content_hash # None
          /\ files[i].content_hash = files[j].content_hash
          /\ files[i].file_hash # files[j].file_hash
          /\ ~Grouped(files[i].path, files[j].path)
          /\ Did(ops, "copy", files[j].path)
          /\ files[i].path \in DOMAIN disk /\ ~Deleted(files[i].path)
    /\ result[1].copied >= 1 /\ result[1].deleted = 0

\* No copy and no delete of the current pass has failed.
PassClean == \A i \in OpsOf(run, pass) : ops[i].ok

\* The current pass is the first one of the run that had anything to do.
FirstPass == \A i \in 1..Len(ops) : ops[i].run = run => ops[i].pass = pass

\* The operations of the current pass on a path.
PassOps(p) == {i \in OpsOf(run, pass) : ops[i].path = p}

\* C27 (as claimed): after a resolution pass without failure every
\* source-origin record has exactly one disposition of the pass, a copy or a
\* skip, copied + skipped is the number of source-origin records, deleted is
\* at most the number of target-origin records, and a target-origin record
\* has a delete or nothing.
C27_EverySourceRecordDisposed ==
    (pc = "returned" /\ PassClean) =>
        /\ \A k \in Rows :
              ~files[k].is_target =>
                  /\ Cardinality(PassOps(files[k].path)) = 1
                  /\ \A i \in PassOps(files[k].path) : ops[i].op \in {"copy", "skip"}
        /\ result[1].copied + result[1].skipped = Cardinality({k \in Rows : ~files[k].is_target})
        /\ result[1].deleted <= Cardinality({k \in Rows : files[k].is_target})
        /\ \A k \in Rows :
              (files[k].is_target /\ \A j \in Rows : ~files[j].is_target => files[j].path # files[k].path)
                  => \A i \in PassOps(files[k].path) : ops[i].op = "delete"

\* C27 (amended): the same for the first pass over a freshly scanned
\* inventory and for the source-origin records whose path is not recorded as
\* target-origin as well; a target-origin record has a delete or nothing.
C27_FirstPassDisposesSources ==
    (pc = "returned" /\ PassClean /\ FirstPass) =>
        /\ \A k \in SourceRows :
              /\ Cardinality(PassOps(files[k].path)) = 1
              /\ \A i \in PassOps(files[k].path) : ops[i].op \in {"copy", "skip"}
        /\ result[1].copied + result[1].skipped = Cardinality({files[k].path : k \in SourceRows})
        /\ result[1].deleted <= Cardinality({k \in Rows : files[k].is_target})
        /\ \A k \in Rows :
              files[k].is_target => \A i \in PassOps(files[k].path) : ops[i].op = "delete"

\* A first pass without failure has copied, skipped and deleted.
C27_Witness ==
    /\ pc = "returned" /\ PassClean /\ FirstPass
    /\ result[1].copied >= 1 /\ result[1].skipped >= 1 /\ result[1].deleted >= 1
    /\ Cardinality(SourceRows) = 2

\* A file with the bytes of the record is under the destination tree: the
\* file of a target record, or a copy that the run made of a source record.
InDestination(r) ==
    IF r.is_target
    THEN r.path \in DOMAIN disk /\ ~Deleted(r.path)
    ELSE \E i \in 1..Len(ops) : /\ ops[i].run = run /\ ops[i].op = "copy"
                                 /\ ops[i].path = r.path
                                 /\ ops[i].dest \in DOMAIN disk
                                 /\ disk[ops[i].dest] = r.file_hash

\* C28 (as claimed): at the end of a resolution pass, failed copies
\* included, every duplicate group with a target member has the file of one
\* of its members under the destination tree.
C28_GroupKeptInDestination ==
    pc = "returned" =>
        \A k \in Range(AllGroups(files)) :
            LET rs == duplicate_files(files, k)
            IN  (Len(rs) >= 2 /\ \E i \in 1..Len(rs) : rs[i].is_target)
                    => \E i \in 1..Len(rs) : InDestination(rs[i])

\* C28 restricted to the scripts that keep the inventory in the store.
C28_GroupKeptInDestinationStore ==
    variant # "memory" => C28_GroupKeptInDestination

\* The pictures the walk of the target directory of image_cleaner meets.
TargetImages ==
    {p \in CleanerWalk(initial.disk, TRUE) : is_image_file(p, initial.disk[p])}

\* The store holds a source row with the file hash of the target picture or,
\* with content hashing, with its content hash.
Matches(p) == found_in_source(files, ImageRow(p, initial.disk[p], FALSE, FALSE))

\* C29 (as claimed): a run of image_cleaner that is not a dry run, in which
\* no removal fails, deletes a target picture exactly when a source row has
\* its file hash or, with content hashing, its content hash; no file that is
\* recorded as a source picture is ever deleted; and when the source scan
\* finds no picture the target tree is neither read nor changed.
C29_CleanerDeletesMatchesOnly ==
    /\ (pc = "returned" /\ ~dry_run /\ NoFailedOps) =>
          \A p \in TargetImages : p \notin DOMAIN disk <=> Matches(p)
    /\ \A p \in DOMAIN initial.disk \ TargetImages : p \in DOMAIN disk
    /\ \A i \in Rows : files[i].is_source => files[i].path \in DOMAIN disk
    /\ (pc = "exit" /\ image_count(initial.disk, FALSE) = 0) =>
          /\ disk = initial.disk /\ ops = <<>>
          /\ \A p \in hashed : p.tree # "T"

\* C29 for a target directory that shares no directory with the source.
C29_DisjointRoots ==
    DOMAIN initial.disk \cap SharedPaths = {} => C29_CleanerDeletesMatchesOnly

\* C30 (as claimed): a dry run of image_cleaner removes no file, inserts no
\* row, and returns the number of target pictures that match a source row.
C30_DryRunCountsMatches ==
    (pc = "returned" /\ dry_run) =>
        /\ disk = initial.disk /\ ops = <<>>
        /\ \A i \in Rows : files[i].is_source /\ ~files[i].deleted
        /\ result = <<Cardinality({p \in TargetImages : Matches(p)})>>

\* What a dry run does: no file removed, no row inserted, 0 returned.
C30_DryRunReturnsZero ==
    (pc = "returned" /\ dry_run) =>
        /\ disk = initial.disk /\ ops = <<>>
        /\ \A i \in Rows : files[i].is_source /\ ~files[i].deleted
        /\ result = <<0>>

====
